---------------------------- MODULE Spec2Model ----------------------------
(***************************************************************************)
(* Model of the Mazungumzo AI chat widget: the MessageFormatter utilities, *)
(* the APIService calls and the ChatInterface component.                   *)
(*                                                                         *)
(* JavaScript strings are TLA+ strings (Len, SubSeq and \o act on them as  *)
(* on sequences of characters).  JavaScript values that may be null or     *)
(* undefined are tagged records: [t |-> "null"], [t |-> "undefined"],      *)
(* [t |-> "string", v |-> s], [t |-> "array", v |-> <<...>>],              *)
(* [t |-> "number", v |-> n], [t |-> "object", ...].                       *)
(***************************************************************************)
EXTENDS Integers, Sequences, FiniteSets, TLC

(***************************************************************************)
(* JavaScript values and string primitives                                 *)
(***************************************************************************)
JsNull == [t |-> "null"]
JsUndefined == [t |-> "undefined"]
Str(s) == [t |-> "string", v |-> s]
Arr(a) == [t |-> "array", v |-> a]
Num(n) == [t |-> "number", v |-> n]

Char(s, i) == SubSeq(s, i, i)

SetMin(S) == CHOOSE i \in S : \A k \in S : i <= k

SetMax(S) == CHOOSE i \in S : \A k \in S : i >= k

\* String.prototype.substr(start, length) with start >= 0: a negative or
\* zero length yields the empty string, a length past the end is clipped.
Substr(s, start, length) ==
  IF length <= 0 \/ start >= Len(s) THEN ""
  ELSE SubSeq(s, start + 1, IF start + length > Len(s) THEN Len(s) ELSE start + length)

\* The characters the regular expression class \s and String.prototype.trim
\* treat as white space (those that occur in the inputs of this model).
IsWhitespace(c) == c \in {" ", "\t", "\n", "\r"}

IsDigit(c) == c \in {"0", "1", "2", "3", "4", "5", "6", "7", "8", "9"}

\* String.prototype.includes
Includes(s, k) ==
  \E i \in 1..(Len(s) - Len(k) + 1) : SubSeq(s, i, i + Len(k) - 1) = k

StartsWithAt(s, i, k) ==
  /\ i + Len(k) - 1 <= Len(s)
  /\ SubSeq(s, i, i + Len(k) - 1) = k

UpperToLower ==
  [c \in {"A","B","C","D","E","F","G","H","I","J","K","L","M",
          "N","O","P","Q","R","S","T","U","V","W","X","Y","Z"} |->
     CASE c = "A" -> "a" [] c = "B" -> "b" [] c = "C" -> "c" [] c = "D" -> "d"
       [] c = "E" -> "e" [] c = "F" -> "f" [] c = "G" -> "g" [] c = "H" -> "h"
       [] c = "I" -> "i" [] c = "J" -> "j" [] c = "K" -> "k" [] c = "L" -> "l"
       [] c = "M" -> "m" [] c = "N" -> "n" [] c = "O" -> "o" [] c = "P" -> "p"
       [] c = "Q" -> "q" [] c = "R" -> "r" [] c = "S" -> "s" [] c = "T" -> "t"
       [] c = "U" -> "u" [] c = "V" -> "v" [] c = "W" -> "w" [] c = "X" -> "x"
       [] c = "Y" -> "y" [] c = "Z" -> "z"]

\* The message compared as typed: a scan that forgets to lower-case it.
ToLowerCaseSkipped(s) == s

\* String.prototype.toLowerCase
RECURSIVE ToLowerCase(_)
ToLowerCase(s) ==
  LET S == {i \in 1..Len(s) : Char(s, i) \in DOMAIN UpperToLower}
  IN IF S = {} THEN s
     ELSE LET i == SetMin(S)
          IN SubSeq(s, 1, i - 1) \o UpperToLower[Char(s, i)]
               \o ToLowerCase(SubSeq(s, i + 1, Len(s)))

\* String.prototype.trim
Trim(s) ==
  LET S == {i \in 1..Len(s) : ~IsWhitespace(Char(s, i))}
  IN IF S = {} THEN "" ELSE SubSeq(s, SetMin(S), SetMax(S))

\* s.replace(/\s+/g, ' '): every maximal run of white space becomes one space.
RECURSIVE ReplaceWhitespaceRuns(_)
ReplaceWhitespaceRuns(s) ==
  LET S == {i \in 1..Len(s) : IsWhitespace(Char(s, i))}
  IN IF S = {} THEN s
     ELSE LET i == SetMin(S)
              N == {j \in (i + 1)..Len(s) : ~IsWhitespace(Char(s, j))}
              j == IF N = {} THEN Len(s) + 1 ELSE SetMin(N)
          IN SubSeq(s, 1, i - 1) \o " " \o ReplaceWhitespaceRuns(SubSeq(s, j, Len(s)))

\* s.replace(/\n/g, '<br>')
RECURSIVE ReplaceNewlines(_)
ReplaceNewlines(s) ==
  LET S == {i \in 1..Len(s) : Char(s, i) = "\n"}
  IN IF S = {} THEN s
     ELSE LET i == SetMin(S)
          IN SubSeq(s, 1, i - 1) \o "<br>" \o ReplaceNewlines(SubSeq(s, i + 1, Len(s)))

\* A match of /(https?:\/\/[^\s]+)/ begins at index i of s.
UrlSchemeLenAt(s, i) ==
  IF StartsWithAt(s, i, "http://") THEN 7
  ELSE IF StartsWithAt(s, i, "https://") THEN 8
  ELSE 0

UrlStartsAt(s, i) ==
  /\ UrlSchemeLenAt(s, i) > 0
  /\ i + UrlSchemeLenAt(s, i) <= Len(s)
  /\ ~IsWhitespace(Char(s, i + UrlSchemeLenAt(s, i)))

\* s.replace(urlRegex, '<a href="$1" target="_blank" rel="noopener noreferrer">$1</a>')
RECURSIVE ReplaceUrls(_)
ReplaceUrls(s) ==
  LET S == {i \in 1..Len(s) : UrlStartsAt(s, i)}
  IN IF S = {} THEN s
     ELSE LET i == SetMin(S)
              W == {j \in i..Len(s) : IsWhitespace(Char(s, j))}
              e == IF W = {} THEN Len(s) ELSE SetMin(W) - 1
              url == SubSeq(s, i, e)
          IN SubSeq(s, 1, i - 1)
               \o "<a href=\"" \o url \o "\" target=\"_blank\" rel=\"noopener noreferrer\">"
               \o url \o "</a>"
               \o ReplaceUrls(SubSeq(s, e + 1, Len(s)))

AllDigits(s, i, n) ==
  /\ i + n - 1 <= Len(s)
  /\ \A k \in i..(i + n - 1) : IsDigit(Char(s, k))

\* The length of the match of /(\+254\d{9}|\d{10})/ that begins at index i
\* of s, 0 when there is none (the first alternative is tried first).
PhoneLenAt(s, i) ==
  IF StartsWithAt(s, i, "+254") /\ AllDigits(s, i + 4, 9) THEN 13
  ELSE IF AllDigits(s, i, 10) THEN 10
  ELSE 0

\* s.replace(phoneRegex, '<a href="tel:$1">$1</a>')
RECURSIVE ReplacePhones(_)
ReplacePhones(s) ==
  LET S == {i \in 1..Len(s) : PhoneLenAt(s, i) > 0}
  IN IF S = {} THEN s
     ELSE LET i == SetMin(S)
              e == i + PhoneLenAt(s, i) - 1
              phone == SubSeq(s, i, e)
          IN SubSeq(s, 1, i - 1)
               \o "<a href=\"tel:" \o phone \o "\">" \o phone \o "</a>"
               \o ReplacePhones(SubSeq(s, e + 1, Len(s)))

(***************************************************************************)
(* MessageFormatter                                                        *)
(***************************************************************************)
Translations ==
  [en |-> [typing |-> "Mazungumzo is typing...",
           sendButton |-> "Send",
           placeholder |-> "Type your message...",
           crisisMessage |-> "I see you might need immediate help. Please contact:",
           errorMessage |-> "Sorry, there was a technical issue. Please try again.",
           welcomeMessage |-> "Hello! I'm Mazungumzo, your mental health companion. I can help you in English or Swahili. How are you feeling today?"],
   sw |-> [typing |-> "Mazungumzo anaandika...",
           sendButton |-> "Tuma",
           placeholder |-> "Andika ujumbe wako...",
           crisisMessage |-> "Naona unaweza kuhitaji msaada wa haraka. Tafadhali wasiliana na:",
           errorMessage |-> "Pole sana, kuna tatizo la kiufundi. Tafadhali jaribu tena.",
           welcomeMessage |-> "Hujambo! Mimi ni Mazungumzo, rafiki yako wa kusaidia katika mambo ya afya ya akili. Naweza kukusaidia kwa lugha ya Kiingereza au Kiswahili. Unahisije leo?"]]

\* The text a DOM node serialises one character of its textContent to.
EscapeChar(c) ==
  CASE c = "&" -> "&amp;"
    [] c = "<" -> "&lt;"
    [] c = ">" -> "&gt;"
    [] OTHER -> c

\* div.textContent = content; return div.innerHTML
RECURSIVE sanitizeHTML(_)
sanitizeHTML(content) ==
  LET S == {i \in 1..Len(content) : Char(content, i) \in {"&", "<", ">"}}
  IN IF S = {} THEN content
     ELSE LET i == SetMin(S)
          IN SubSeq(content, 1, i - 1) \o EscapeChar(Char(content, i))
               \o sanitizeHTML(SubSeq(content, i + 1, Len(content)))

formatMessage(content, allowHTML) ==
  IF content = "" THEN ""
  ELSE ReplacePhones(ReplaceUrls(ReplaceNewlines(
         IF allowHTML THEN content ELSE sanitizeHTML(content))))

\* this.translations[language]?.[key] || this.translations.en[key] || key
translate(key, language) ==
  IF language \in DOMAIN Translations /\ key \in DOMAIN Translations[language]
    THEN Translations[language][key]
  ELSE IF key \in DOMAIN Translations.en THEN Translations.en[key]
  ELSE key

crisisKeywords ==
  << "suicide", "kill myself", "end it all", "don't want to live",
     "cutting", "self harm", "overdose", "emergency",
     "kujiua", "kufa", "maumivu", "tatizo kubwa",
     "msaada wa haraka", "emergency", "hospitali" >>

\* crisisKeywords.some(keyword => messageLower.includes(keyword)): the scan
\* stops at the first keyword found.
RECURSIVE SomeKeywordFrom(_, _)
SomeKeywordFrom(messageLower, k) ==
  IF k > Len(crisisKeywords) THEN FALSE
  ELSE IF Includes(messageLower, crisisKeywords[k]) THEN TRUE
  ELSE SomeKeywordFrom(messageLower, k + 1)

detectCrisisIndicators(message) ==
  SomeKeywordFrom(ToLowerCase(message), 1)

RECURSIVE ResourceItems(_, _)
ResourceItems(resources, k) ==
  IF k > Len(resources) THEN ""
  ELSE "<div class=\"resource-item\">" \o formatMessage(resources[k], TRUE) \o "</div>"
         \o ResourceItems(resources, k + 1)

\* resources is a tagged value: undefined, or an array of strings.
formatCrisisResources(resources, language) ==
  IF resources.t # "array" \/ Len(resources.v) = 0 THEN ""
  ELSE "<p><strong>" \o translate("crisisMessage", language) \o "</strong></p><div class=\"resources\">"
         \o ResourceItems(resources.v, 1) \o "</div>"

DefaultMaxLength == 100

\* text is a tagged value (null or a string) and so is the result; maxLength
\* is a number, or undefined for a call that leaves it out.
truncateText(text, maxLength) ==
  LET max == IF maxLength.t = "undefined" THEN DefaultMaxLength ELSE maxLength.v
  IN IF text.t # "string" \/ text.v = "" \/ Len(text.v) <= max THEN text
     ELSE Str(Substr(text.v, 0, max - 3) \o "...")

InputLimit == 1000

\* input is a tagged value (null or a string); the result is a string.
formatUserInput(input) ==
  IF input.t # "string" \/ input.v = "" THEN ""
  ELSE Substr(ReplaceWhitespaceRuns(Trim(input.v)), 0, InputLimit)


(***************************************************************************)
(* APIService                                                              *)
(***************************************************************************)
baseURL == "http://localhost:8000"

endpoints == [chat |-> "/api/v1/chat", stats |-> "/api/v1/stats"]

\* What a fetch can come to.  A fetch either rejects (network error) or
\* resolves with a response that is ok or not, whose body parses as JSON or
\* does not.
NetworkError == [kind |-> "network_error"]
HttpError == [kind |-> "http_error"]
BadJson == [kind |-> "bad_json"]
Ok(body) == [kind |-> "ok", body |-> body]

FetchFailures == {NetworkError, HttpError, BadJson}

Resolved(v) == [settled |-> "resolved", value |-> v]
Rejected(m) == [settled |-> "rejected", message |-> m]

\* The request APIService.sendMessage hands to fetch.
ChatRequest(message, uid, language, platform) ==
  [url |-> baseURL \o endpoints.chat,
   method |-> "POST",
   body |-> [user_id |-> uid, message |-> message,
             language |-> language, platform |-> platform]]

\* How the promise of APIService.sendMessage settles, given what its fetch
\* came to: every failure is caught and thrown again as one Error.
apiSendMessage(outcome) ==
  IF outcome.kind = "ok" THEN Resolved(outcome.body)
  ELSE Rejected("Failed to send message. Please try again.")

DefaultStats ==
  [t |-> "object", active_users |-> Num(0), total_conversations |-> Num(0),
   resources_available |-> Num(0)]

\* A getStats that throws again, as getResources does.
getStatsRethrowing(outcome) ==
  IF outcome.kind = "ok" THEN Resolved(outcome.body)
  ELSE Rejected("Failed to load stats")

\* How the promise of APIService.getStats settles, given what its fetch came
\* to: the catch block returns the default stats.
getStats(outcome) ==
  IF outcome.kind = "ok" THEN Resolved(outcome.body)
  ELSE Resolved(DefaultStats)

(***************************************************************************)
(* Bounds and the values the environment supplies                          *)
(***************************************************************************)
\* The number of user actions (send, language button, Ctrl+R, Ctrl+D) explored.
MaxUserActions == 2

\* The step of the clock, in ms.
TickMs == 7500

Languages == {"en", "sw"}

UserIds == {"user_1700000000000_k3j9x2q1z"}

\* What the user types into the textarea.
Inputs == {" \n", " <b>Kufa</b>  u"}

\* The chat backend's JSON replies.
ChatResponse(text, crisis, resources) ==
  [t |-> "object", response |-> text, is_crisis |-> crisis,
   confidence |-> JsUndefined, resources |-> resources]

ChatBodies ==
  { ChatResponse("Pole sana.", FALSE, JsUndefined),
    ChatResponse("Call <b>now</b>", TRUE, Arr(<<"Befrienders Kenya: 0722178177">>)),
    ChatResponse("Pole sana.", TRUE, JsUndefined),
    JsNull }

ChatOutcomes == FetchFailures \cup {Ok(b) : b \in ChatBodies}

\* The stats backend's JSON replies: each field a number or missing.
StatsObject(a, c, r) ==
  [t |-> "object", active_users |-> a, total_conversations |-> c,
   resources_available |-> r]

StatFields == {JsUndefined, Num(0), Num(7), Num(12)}

StatsBodies ==
  {StatsObject(a, c, r) : a \in StatFields, c \in StatFields, r \in StatFields}
    \cup {JsNull}

StatsOutcomes == FetchFailures \cup {Ok(b) : b \in StatsBodies}

\* The stats replies explored together with the chat.
StatsOutcomesChat == {HttpError}

(***************************************************************************)
(* Inputs of the direct MessageFormatter calls                             *)
(***************************************************************************)
MaxShortLen == 4
MaxTailLen == 3
MaxTextLen == 6
MaxLength == 8

RECURSIVE AllStrings(_, _)
AllStrings(alphabet, n) ==
  IF n = 0 THEN {""}
  ELSE LET P == AllStrings(alphabet, n - 1)
       IN P \cup {p \o c : p \in P, c \in alphabet}

RECURSIVE Pad(_)
Pad(n) ==
  IF n <= 0 THEN "" ELSE IF n = 1 THEN "a"
  ELSE Pad(n \div 2) \o Pad(n - (n \div 2))

DetectCores ==
  {crisisKeywords[k] : k \in 1..Len(crisisKeywords)}
    \cup {"SUICIDE", "Kill Myself", "End It All", "DON'T WANT TO LIVE", "Cutting",
          "Self Harm", "OverDose", "EMERGENCY", "Kujiua", "KuFa", "MAUMIVU",
          "Tatizo Kubwa", "Msaada wa Haraka", "Hospitali"}
    \cup {"", "suicid", "kill my self", "selfharm", "over dose", "kuf", "kujua",
          "hospital", "tatizo  kubwa", "habari", "I am fine", "Sina shida"}

DetectInputs ==
  {p \o c \o s : p \in {"", "x", "Nataka "}, c \in DetectCores, s \in {"", "!", " leo"}}

FormatInputs ==
  {JsNull}
    \cup {Str(s) : s \in AllStrings({"a", " ", "\n"}, MaxShortLen)}
    \cup {Str(Pad(n) \o tail) : n \in (InputLimit - 2)..(InputLimit + 1),
                                tail \in AllStrings({"b", " "}, MaxTailLen)}

TruncateTexts ==
  {JsNull, Str(Pad(DefaultMaxLength + 1))}
    \cup {Str(SubSeq("abcdefghijklmnop", 1, n)) : n \in 0..MaxTextLen}

TruncateLengths == {JsUndefined} \cup {Num(n) : n \in 0..MaxLength}

(***************************************************************************)
(* ChatInterface: state                                                    *)
(***************************************************************************)
VARIABLES
  userId,           \* this.userId
  currentLanguage,  \* this.currentLanguage
  isTyping,         \* this.isTyping
  typingIndicator,  \* the typing indicator has class 'show'
  sendDisabled,     \* components.sendButton.disabled
  inputValue,       \* components.input.value
  languageUI,       \* the active language button and the texts of updateUILanguage
  messageHistory,   \* this.messageHistory
  messages,         \* the children of the #messages element
  nextMessageId,    \* stands for the fresh value of generateMessageId
  crisisAlert,      \* the #crisisAlert element: class 'show', #crisisResources innerHTML
  hideTimers,       \* pending timers of showCrisisAlert: the ms each has left
  shownFor,         \* ms the alert has carried class 'show' without a break
  statsBar,         \* textContent of the three stat-value elements
  requests,         \* every request handed to fetch for the chat endpoint
  sendCalls,        \* number of sendMessage calls made so far
  inflight,         \* sendMessage calls suspended at the await
  pendingStats,     \* updateStats calls suspended at the await (not loadInitialData's)
  refreshes,        \* number of Ctrl+R presses so far
  initialLoad,      \* loadInitialData: "loading" until its updateStats returns
  statsFetch,       \* what the last settled stats fetch came to
  statsResult,      \* what getStats resolved with for it
  demo,             \* loadDemoConversation runs: the number of timers each has fired
  demoRuns,         \* number of Ctrl+D presses so far
  switches,         \* number of language button clicks so far
  utilCall,         \* the MessageFormatter call last made directly
  utilResult        \* and what it returned

\* The CrisisAlert class and the page it runs in.
VARIABLES
  crisisElements,   \* the elements with class 'crisis-alert', in document order
  crisisAlerts,     \* the CrisisAlert instances, in the order of their construction
  page,             \* window: confirm and alert dialogs, location, dispatched events
  crisisCall,       \* the CrisisAlert call or click last made, and how it ended
  crisisOps         \* number of CrisisAlert calls and clicks so far

\* The LanguageToggle class.
VARIABLES
  storedLanguage,   \* the localStorage item 'mazungumzo-language'
  toggle,           \* the LanguageToggle instance and the state of its element
  toggleCalls,      \* the calls of onLanguageChange made so far
  toggleEvents,     \* the 'language-changed' events dispatched so far
  notifications,    \* the language-change notifications in the document
  toggleCall,       \* the LanguageToggle call or user action last made, and how it ended
  toggleOps         \* number of LanguageToggle calls and user actions so far

chatVars ==
  << userId, currentLanguage, isTyping, typingIndicator, sendDisabled, inputValue,
     languageUI, messageHistory, messages, nextMessageId, crisisAlert, hideTimers,
     shownFor, statsBar, requests, sendCalls, inflight, pendingStats, refreshes, initialLoad,
     statsFetch, statsResult, demo, demoRuns, switches >>

utilVars == << utilCall, utilResult >>

crisisVars == << crisisElements, crisisAlerts, page, crisisCall, crisisOps >>

toggleVars ==
  << storedLanguage, toggle, toggleCalls, toggleEvents, notifications, toggleCall,
     toggleOps >>

componentVars == << crisisVars, toggleVars >>

\* What no ChatInterface operation touches.
restVars == << utilVars, componentVars >>

vars == << chatVars, utilVars, componentVars >>

UserActions == sendCalls + switches + refreshes + demoRuns


(***************************************************************************)
(* ChatInterface: helpers                                                  *)
(***************************************************************************)
\* The #crisisAlert element of ChatInterface.render: it has class
\* 'crisis-alert', belongs to no CrisisAlert instance and has no
\* crisisAlertInstance property.
ChatAlertElement == [instance |-> 0, crisisAlertInstance |-> JsUndefined]

\* No LanguageToggle has been constructed.
NoToggle == [constructed |-> FALSE]

InitLanguageToggle ==
  /\ toggle = NoToggle
  /\ toggleCalls = << >>
  /\ toggleEvents = << >>
  /\ notifications = << >>
  /\ toggleCall = [fn |-> "none"]
  /\ toggleOps = 0

\* No CrisisAlert has been constructed and nothing has been clicked.
InitCrisisAlert ==
  /\ crisisAlerts = << >>
  /\ page = [confirms |-> 0, alerts |-> 0, location |-> "", navigations |-> 0,
             events |-> << >>]
  /\ crisisCall = [fn |-> "none"]
  /\ crisisOps = 0

EmptyObject == [t |-> "object"]

RECURSIVE NumberToString(_)
NumberToString(n) ==
  IF n < 10 THEN Char("0123456789", n + 1)
  ELSE NumberToString(n \div 10) \o Char("0123456789", (n % 10) + 1)

\* The chat log an operation works on: the history, the DOM children and the
\* next fresh message id.
ChatLog ==
  [messageHistory |-> messageHistory, messages |-> messages,
   nextMessageId |-> nextMessageId]

SetChatLog(log) ==
  /\ messageHistory' = log.messageHistory
  /\ messages' = log.messages
  /\ nextMessageId' = log.nextMessageId

addMessage(log, content, type, metadata) ==
  [messageHistory |->
     Append(log.messageHistory,
            [id |-> log.nextMessageId, type |-> type, content |-> content,
             metadata |-> metadata]),
   messages |->
     Append(log.messages,
            [className |-> "message " \o type, messageId |-> log.nextMessageId,
             html |-> formatMessage(content, TRUE)]),
   nextMessageId |-> log.nextMessageId + 1]

clearChat(log, language) ==
  [log EXCEPT
     !.messageHistory = << >>,
     !.messages = << [className |-> "message bot", messageId |-> 0,
                      html |-> translate("welcomeMessage", language)] >>]

\* showTyping(show)
ShowTyping(show) ==
  /\ isTyping' = show
  /\ typingIndicator' = show
  /\ sendDisabled' = show

\* The delay of the timer of showCrisisAlert, in ms.
AlertHideDelay == 15000

\* showCrisisAlert(resources), with every pending timer started afresh: what a
\* debounced auto-hide would do.
ShowCrisisAlertRestartingTimers(resources) ==
  /\ crisisAlert' = [show |-> TRUE,
                     resources |-> formatCrisisResources(resources, currentLanguage)]
  /\ hideTimers' = [i \in 1..(Len(hideTimers) + 1) |-> AlertHideDelay]
  /\ shownFor' = IF crisisAlert.show THEN shownFor ELSE 0

\* showCrisisAlert(resources)
ShowCrisisAlert(resources) ==
  /\ crisisAlert' = [show |-> TRUE,
                     resources |-> formatCrisisResources(resources, currentLanguage)]
  /\ hideTimers' = Append(hideTimers, AlertHideDelay)
  /\ shownFor' = IF crisisAlert.show THEN shownFor ELSE 0

UITexts ==
  [en |-> [placeholder |-> "Type your message...", send |-> "Send",
           typing |-> "Mazungumzo is typing"],
   sw |-> [placeholder |-> "Andika ujumbe wako...", send |-> "Tuma",
           typing |-> "Mazungumzo anaandika"]]

\* The button marked active and the texts updateUILanguage sets.
updateUILanguage(lang) ==
  [active |-> lang,
   texts |-> IF lang \in DOMAIN UITexts THEN UITexts[lang] ELSE UITexts.en]

\* stats.field || 0, as the text of a DOM node
StatText(field) ==
  IF field.t = "number" /\ field.v # 0 THEN NumberToString(field.v) ELSE "0"

\* An updateStats that shows the fields without the "|| 0" fallback.
updateStatsNoFallback(bar, stats) ==
  IF stats.t # "object" THEN bar
  ELSE [activeUsers |-> IF stats.active_users.t = "number"
                          THEN NumberToString(stats.active_users.v) ELSE "undefined",
        totalConversations |-> StatText(stats.total_conversations),
        resourcesAvailable |-> StatText(stats.resources_available)]

\* The body of updateStats after getStats resolved with stats: reading a
\* field of null throws, and the catch block leaves the counters alone.
updateStats(bar, stats) ==
  IF stats.t # "object" THEN bar
  ELSE [activeUsers |-> StatText(stats.active_users),
        totalConversations |-> StatText(stats.total_conversations),
        resourcesAvailable |-> StatText(stats.resources_available)]

DemoUserMessage ==
  "Nimehisi vibaya sana wiki hii... (I've been feeling really bad this week...)"

DemoBotMessage ==
  "Pole sana kwa hali yako. Ni muhimu sana kuongea kuhusu hisia zako. Je, unaweza kuniambia ni nini kimekufanya uhisi hivyo? Mimi nipo hapa kukusikiliza bila kuhukumu. (I'm sorry about how you're feeling. It's very important to talk about your feelings. Can you tell me what has made you feel this way? I'm here to listen without judgment.)"

(***************************************************************************)
(* ChatInterface: construction                                             *)
(***************************************************************************)
\* ChatInterface as its constructor leaves it, and no MessageFormatter call made.
InitChatInterface ==
  /\ userId \in UserIds
  /\ currentLanguage = "en"
  /\ isTyping = FALSE
  /\ typingIndicator = FALSE
  /\ sendDisabled = FALSE
  /\ inputValue = ""
  /\ languageUI = [active |-> "en",
                   texts |-> [placeholder |-> "Type your message... / Andika ujumbe wako...",
                              send |-> "Send", typing |-> "Mazungumzo is typing"]]
  /\ messageHistory = << >>
  /\ messages = << [className |-> "demo-note", messageId |-> 0,
                    html |-> "<strong>Hackathon Demo:</strong> This is a working prototype of Mazungumzo AI, built for the Cerebras + OpenRouter + Qwen3 hackathon. Try asking about mental health support in English or Swahili!"],
                   [className |-> "message bot", messageId |-> 0,
                    html |-> Translations.sw.welcomeMessage \o "<br><br>"
                               \o Translations.en.welcomeMessage] >>
  /\ nextMessageId = 1
  /\ crisisAlert = [show |-> FALSE, resources |-> ""]
  /\ hideTimers = << >>
  /\ shownFor = 0
  /\ statsBar = [activeUsers |-> "0", totalConversations |-> "0",
                 resourcesAvailable |-> "0"]
  /\ requests = << >>
  /\ sendCalls = 0
  /\ inflight = {}
  /\ pendingStats = 0
  /\ refreshes = 0
  /\ initialLoad = "loading"
  /\ statsFetch = [kind |-> "none"]
  /\ statsResult = [settled |-> "none"]
  /\ demo = << >>
  /\ demoRuns = 0
  /\ switches = 0
  /\ utilCall = [fn |-> "none"]
  /\ utilResult = JsUndefined

\* index.js found the #app container and built the ChatInterface in it.
Init ==
  /\ InitChatInterface
  /\ crisisElements = << ChatAlertElement >>
  /\ InitCrisisAlert
  /\ storedLanguage = JsNull
  /\ InitLanguageToggle

(***************************************************************************)
(* ChatInterface: operations                                               *)
(***************************************************************************)
\* The user edits the textarea.
TypeInput(v) ==
  /\ inputValue' = v
  /\ UNCHANGED << userId, currentLanguage, isTyping, typingIndicator, sendDisabled,
                  languageUI, messageHistory, messages, nextMessageId, crisisAlert,
                  hideTimers, statsBar, requests, sendCalls, inflight, pendingStats,
                  refreshes, initialLoad, statsFetch, statsResult, demo, demoRuns >>
  /\ UNCHANGED << switches, shownFor, restVars >>

\* A guard that forgets the typing flag.
AcceptedWhileTyping == formatUserInput(Str(inputValue)) # ""

\* sendMessage accepts the call.
Accepted == formatUserInput(Str(inputValue)) # "" /\ ~isTyping

\* sendMessage, up to its await: a click on the send button or the Enter key.
SendMessage ==
  /\ UserActions < MaxUserActions
  /\ sendCalls' = sendCalls + 1
  /\ LET message == formatUserInput(Str(inputValue))
     IN IF ~Accepted
        THEN UNCHANGED << isTyping, typingIndicator, sendDisabled, inputValue,
                          messageHistory, messages, nextMessageId, requests, inflight >>
        ELSE /\ SetChatLog(addMessage(ChatLog, message, "user", EmptyObject))
             /\ inputValue' = ""
             /\ ShowTyping(TRUE)
             /\ requests' = Append(requests,
                                   ChatRequest(message, userId, currentLanguage, "web"))
             /\ inflight' = inflight \cup
                  {[request |-> Len(requests) + 1, message |-> message,
                    userMessageId |-> nextMessageId]}
  /\ UNCHANGED << userId, currentLanguage, languageUI, crisisAlert, hideTimers,
                  statsBar, pendingStats, refreshes, initialLoad, statsFetch,
                  statsResult, demo, demoRuns >>
  /\ UNCHANGED << switches, shownFor, restVars >>

\* The catch block of sendMessage.
SendMessageCatch ==
  /\ ShowTyping(FALSE)
  /\ SetChatLog(addMessage(ChatLog, translate("errorMessage", currentLanguage),
                           "bot", EmptyObject))
  /\ UNCHANGED << crisisAlert, hideTimers, shownFor, pendingStats >>

\* The try block of sendMessage after the await, for a response object.
SendMessageReply(response) ==
  /\ ShowTyping(FALSE)
  /\ SetChatLog(addMessage(ChatLog, response.response,
                           IF response.is_crisis THEN "crisis" ELSE "bot",
                           [t |-> "object", isCrisis |-> response.is_crisis,
                            confidence |-> response.confidence,
                            resources |-> response.resources]))
  /\ IF response.is_crisis /\ response.resources.t = "array"
       THEN ShowCrisisAlert(response.resources)
       ELSE UNCHANGED << crisisAlert, hideTimers, shownFor >>
  /\ pendingStats' = pendingStats + 1

\* sendMessage, from its await on: the request of call c settles.
SendMessageSettle(c, outcome) ==
  /\ c \in inflight
  /\ inflight' = inflight \ {c}
  /\ LET r == apiSendMessage(outcome)
     IN IF r.settled = "resolved" /\ r.value.t = "object"
          THEN SendMessageReply(r.value)
          ELSE SendMessageCatch
  /\ UNCHANGED << userId, currentLanguage, inputValue, languageUI, statsBar, requests,
                  sendCalls, refreshes, initialLoad, statsFetch, statsResult, demo,
                  demoRuns >>
  /\ UNCHANGED << switches, restVars >>

\* switchLanguage(lang): a click on a language button.
SwitchLanguage(lang) ==
  /\ UserActions < MaxUserActions
  /\ switches' = switches + 1
  /\ currentLanguage' = lang
  /\ languageUI' = updateUILanguage(lang)
  /\ IF Len(messageHistory) <= 1
       THEN SetChatLog(addMessage(clearChat(ChatLog, lang), "assistant",
                                  translate("welcomeMessage", lang), EmptyObject))
       ELSE UNCHANGED << messageHistory, messages, nextMessageId >>
  /\ UNCHANGED << userId, isTyping, typingIndicator, sendDisabled, inputValue,
                  crisisAlert, hideTimers, statsBar, requests, sendCalls, inflight,
                  pendingStats, refreshes, initialLoad, statsFetch, statsResult, demo,
                  demoRuns >>
  /\ UNCHANGED << shownFor, restVars >>

\* Ctrl+R: updateStats up to its await.
RefreshStats ==
  /\ UserActions < MaxUserActions
  /\ refreshes' = refreshes + 1
  /\ pendingStats' = pendingStats + 1
  /\ UNCHANGED << userId, currentLanguage, isTyping, typingIndicator, sendDisabled,
                  inputValue, languageUI, messageHistory, messages, nextMessageId,
                  crisisAlert, hideTimers, statsBar, requests, sendCalls, inflight,
                  initialLoad, statsFetch, statsResult, demo, demoRuns >>
  /\ UNCHANGED << switches, shownFor, restVars >>

\* The stats fetch of an updateStats call comes to outcome.
StatsSettled(outcome) ==
  /\ statsFetch' = outcome
  /\ statsResult' = getStats(outcome)
  /\ statsBar' = IF getStats(outcome).settled = "resolved"
                   THEN updateStats(statsBar, getStats(outcome).value)
                   ELSE statsBar

\* updateStats, from its await on (a call made by sendMessage or by Ctrl+R).
UpdateStatsSettle(outcome) ==
  /\ pendingStats > 0
  /\ pendingStats' = pendingStats - 1
  /\ StatsSettled(outcome)
  /\ UNCHANGED << userId, currentLanguage, isTyping, typingIndicator, sendDisabled,
                  inputValue, languageUI, messageHistory, messages, nextMessageId,
                  crisisAlert, hideTimers, requests, sendCalls, inflight, refreshes,
                  initialLoad, demo, demoRuns >>
  /\ UNCHANGED << switches, shownFor, restVars >>

\* loadInitialData, from its await on: updateStats returns and the welcome
\* message is pushed onto the history.
LoadInitialDataSettle(outcome) ==
  /\ initialLoad = "loading"
  /\ initialLoad' = "done"
  /\ StatsSettled(outcome)
  /\ messageHistory' =
       Append(messageHistory,
              [id |-> nextMessageId, type |-> "bot",
               content |-> translate("welcomeMessage", currentLanguage)])
  /\ nextMessageId' = nextMessageId + 1
  /\ UNCHANGED << userId, currentLanguage, isTyping, typingIndicator, sendDisabled,
                  inputValue, languageUI, messages, crisisAlert, hideTimers, requests,
                  sendCalls, inflight, pendingStats, refreshes, demo, demoRuns >>
  /\ UNCHANGED << switches, shownFor, restVars >>

\* The close button of the crisis alert.
CloseCrisisAlert ==
  /\ crisisAlert.show
  /\ crisisAlert' = [crisisAlert EXCEPT !.show = FALSE]
  /\ shownFor' = 0
  /\ UNCHANGED << userId, currentLanguage, isTyping, typingIndicator, sendDisabled,
                  inputValue, languageUI, messageHistory, messages, nextMessageId,
                  hideTimers, statsBar, requests, sendCalls, inflight, pendingStats,
                  refreshes, initialLoad, statsFetch, statsResult, demo, demoRuns >>
  /\ UNCHANGED << switches, restVars >>

\* A timer of showCrisisAlert has run out and its callback runs.  The timers
\* all have the same delay, so the oldest is the first to run out.
CrisisAlertTimeout ==
  /\ hideTimers # << >>
  /\ Head(hideTimers) = 0
  /\ hideTimers' = Tail(hideTimers)
  /\ crisisAlert' = [crisisAlert EXCEPT !.show = FALSE]
  /\ shownFor' = 0
  /\ UNCHANGED << userId, currentLanguage, isTyping, typingIndicator, sendDisabled,
                  inputValue, languageUI, messageHistory, messages, nextMessageId,
                  statsBar, requests, sendCalls, inflight, pendingStats, refreshes,
                  initialLoad, statsFetch, statsResult, demo, demoRuns >>
  /\ UNCHANGED << switches, restVars >>

\* Time passes: by TickMs, or by less when a timer of showCrisisAlert runs out
\* sooner.  No time passes while a timer that has run out waits for its
\* callback, and none is counted once the alert has been shown for longer
\* than the delay.
TimePasses ==
  /\ hideTimers # << >> \/ crisisAlert.show
  /\ shownFor <= AlertHideDelay
  /\ LET d == SetMin({TickMs} \cup {hideTimers[i] : i \in DOMAIN hideTimers})
     IN /\ d > 0
        /\ hideTimers' = [i \in DOMAIN hideTimers |-> hideTimers[i] - d]
        /\ shownFor' = IF crisisAlert.show THEN shownFor + d ELSE 0
  /\ UNCHANGED << userId, currentLanguage, isTyping, typingIndicator, sendDisabled,
                  inputValue, languageUI, messageHistory, messages, nextMessageId,
                  crisisAlert, statsBar, requests, sendCalls, inflight, pendingStats,
                  refreshes, initialLoad, statsFetch, statsResult, demo, demoRuns >>
  /\ UNCHANGED << switches, restVars >>

\* Ctrl+D: loadDemoConversation sets its three timers.
LoadDemoConversation ==
  /\ UserActions < MaxUserActions
  /\ demoRuns' = demoRuns + 1
  /\ demo' = Append(demo, 0)
  /\ UNCHANGED << userId, currentLanguage, isTyping, typingIndicator, sendDisabled,
                  inputValue, languageUI, messageHistory, messages, nextMessageId,
                  crisisAlert, hideTimers, statsBar, requests, sendCalls, inflight,
                  pendingStats, refreshes, initialLoad, statsFetch, statsResult >>
  /\ UNCHANGED << switches, shownFor, restVars >>

\* The next timer of demo run i fires (1 s, 2 s and 4 s after Ctrl+D).  The
\* timers of one run fire in that order, and a timer of a later run fires
\* after the same timer of every earlier run.  Time itself is not modelled:
\* with two or more runs this allows every order the delays allow.
DemoTimer(i) ==
  /\ i \in 1..Len(demo)
  /\ demo[i] < 3
  /\ \A j \in 1..(i - 1) : demo[j] > demo[i]
  /\ demo' = [demo EXCEPT ![i] = demo[i] + 1]
  /\ CASE demo[i] = 0 ->
            /\ SetChatLog(addMessage(ChatLog, DemoUserMessage, "user", EmptyObject))
            /\ UNCHANGED << isTyping, typingIndicator, sendDisabled >>
       [] demo[i] = 1 ->
            /\ ShowTyping(TRUE)
            /\ UNCHANGED << messageHistory, messages, nextMessageId >>
       [] demo[i] = 2 ->
            /\ ShowTyping(FALSE)
            /\ SetChatLog(addMessage(ChatLog, DemoBotMessage, "bot", EmptyObject))
  /\ UNCHANGED << userId, currentLanguage, inputValue, languageUI, crisisAlert,
                  hideTimers, statsBar, requests, sendCalls, inflight, pendingStats,
                  refreshes, initialLoad, statsFetch, statsResult, demoRuns >>
  /\ UNCHANGED << switches, shownFor, restVars >>

Next ==
  \/ \E v \in Inputs : TypeInput(v)
  \/ SendMessage
  \/ \E c \in inflight, o \in ChatOutcomes : SendMessageSettle(c, o)
  \/ \E lang \in Languages : SwitchLanguage(lang)
  \/ RefreshStats
  \/ \E o \in StatsOutcomesChat : UpdateStatsSettle(o)
  \/ \E o \in StatsOutcomesChat : LoadInitialDataSettle(o)
  \/ CloseCrisisAlert
  \/ CrisisAlertTimeout
  \/ TimePasses
  \/ LoadDemoConversation
  \/ \E i \in 1..Len(demo) : DemoTimer(i)

Spec == Init /\ [][Next]_vars


(***************************************************************************)
(* The stats bar on its own: every reply of the stats endpoint             *)
(***************************************************************************)
NextStats ==
  \/ RefreshStats
  \/ \E o \in StatsOutcomes : UpdateStatsSettle(o)
  \/ \E o \in StatsOutcomes : LoadInitialDataSettle(o)

SpecStats == Init /\ [][NextStats]_vars

(***************************************************************************)
(* Direct calls of the MessageFormatter utilities.  The functions are pure, *)
(* so a behaviour makes one call: it picks a function and its arguments.   *)
(***************************************************************************)
Bool(b) == [t |-> "boolean", v |-> b]

CallDetectCrisisIndicators(message) ==
  /\ utilCall.fn = "none"
  /\ utilCall' = [fn |-> "detectCrisisIndicators", args |-> << Str(message) >>]
  /\ utilResult' = Bool(detectCrisisIndicators(message))
  /\ UNCHANGED << chatVars, componentVars >>

CallFormatUserInput(input) ==
  /\ utilCall.fn = "none"
  /\ utilCall' = [fn |-> "formatUserInput", args |-> << input >>]
  /\ utilResult' = Str(formatUserInput(input))
  /\ UNCHANGED << chatVars, componentVars >>

CallTruncateText(text, maxLength) ==
  /\ utilCall.fn = "none"
  /\ utilCall' = [fn |-> "truncateText", args |-> << text, maxLength >>]
  /\ utilResult' = truncateText(text, maxLength)
  /\ UNCHANGED << chatVars, componentVars >>

NextUtil ==
  \/ \E m \in DetectInputs : CallDetectCrisisIndicators(m)
  \/ \E i \in FormatInputs : CallFormatUserInput(i)
  \/ \E t \in TruncateTexts, n \in TruncateLengths : CallTruncateText(t, n)

SpecUtil == Init /\ [][NextUtil]_vars


(***************************************************************************)
(* CrisisAlert                                                             *)
(***************************************************************************)
\* The number of CrisisAlert instances and of calls and clicks explored.
MaxCrisisAlerts == 2
MaxCrisisOps == 4

\* The crisisData handed to show: none, without resources, with two hotlines.
Hotlines ==
  << [name |-> "Kenya Red Cross", phone |-> "1199", hours |-> Str("24/7")],
     [name |-> "Befrienders Kenya", phone |-> "+254722178177", hours |-> JsUndefined] >>

CrisisDatas ==
  { JsUndefined,
    [t |-> "object", resources |-> JsUndefined],
    [t |-> "object", resources |-> [t |-> "object", crisis_hotlines |-> Arr(Hotlines)]] }

\* The contact items of the .emergency-contacts element that createAlertElement writes.
DefaultContacts ==
  << [label |-> "Kenya Red Cross:", href |-> "tel:1199", text |-> "1199",
      hours |-> JsUndefined],
     [label |-> "Befrienders Kenya:", href |-> "tel:+254722178177",
      text |-> "+254 722 178 177", hours |-> JsUndefined],
     [label |-> "Emergency Services:", href |-> "tel:999", text |-> "999",
      hours |-> JsUndefined] >>

\* constructor and createAlertElement: the instance and its element.
NewCrisisAlert ==
  [isVisible |-> FALSE, display |-> "", visibleClass |-> FALSE,
   contacts |-> DefaultContacts, focused |-> FALSE, frames |-> 0, timers |-> 0,
   attached |-> TRUE]

NewAlertElement(i) == [instance |-> i, crisisAlertInstance |-> JsUndefined]

\* The element of instance i is in the document and displayed.
Displayed(i) == crisisAlerts[i].attached /\ crisisAlerts[i].display = "flex"

\* updateResources(resources), as the contact items it leaves.
updateResources(contacts, resources) ==
  IF resources.crisis_hotlines.t # "array"
    THEN contacts
    ELSE [k \in DOMAIN resources.crisis_hotlines.v |->
            LET hotline == resources.crisis_hotlines.v[k]
            IN [label |-> hotline.name \o ":", href |-> "tel:" \o hotline.phone,
                text |-> hotline.phone, hours |-> hotline.hours]]

\* dispatchEvent(eventName, detail) on the element of instance i.
dispatchEvent(pg, i, eventName, detail) ==
  [pg EXCEPT !.events = Append(@, [name |-> eventName, detail |-> detail,
                                   target |-> i])]

\* show(crisisData) of instance i.
InstanceShow(i, crisisData) ==
  LET data == IF crisisData = JsUndefined
                THEN [t |-> "object", resources |-> JsUndefined]
                ELSE crisisData
  IN IF crisisAlerts[i].isVisible
       THEN UNCHANGED << crisisAlerts, page >>
       ELSE /\ crisisAlerts' =
                 [crisisAlerts EXCEPT ![i] =
                    [@ EXCEPT !.isVisible = TRUE,
                              !.display = "flex",
                              !.contacts = IF data.resources.t = "object"
                                             THEN updateResources(@, data.resources)
                                             ELSE @,
                              !.frames = @ + 1,
                              !.focused = TRUE]]
            /\ page' = dispatchEvent(page, i, "crisis-alert-shown",
                                     [crisisData |-> data])

\* new CrisisAlert()
ConstructCrisisAlert ==
  /\ crisisOps < MaxCrisisOps
  /\ Len(crisisAlerts) < MaxCrisisAlerts
  /\ crisisOps' = crisisOps + 1
  /\ crisisAlerts' = Append(crisisAlerts, NewCrisisAlert)
  /\ crisisElements' = Append(crisisElements, NewAlertElement(Len(crisisAlerts) + 1))
  /\ crisisCall' = [fn |-> "new CrisisAlert", outcome |-> "returned"]
  /\ UNCHANGED << page, chatVars, utilVars, toggleVars >>

\* alert.show(crisisData), called on instance i.
CrisisShow(i, crisisData) ==
  /\ crisisOps < MaxCrisisOps
  /\ crisisOps' = crisisOps + 1
  /\ InstanceShow(i, crisisData)
  /\ crisisCall' = [fn |-> "show", outcome |-> "returned"]
  /\ UNCHANGED << crisisElements, chatVars, utilVars, toggleVars >>

\* The callback that show handed to requestAnimationFrame.
CrisisAnimationFrame(i) ==
  /\ crisisAlerts[i].frames > 0
  /\ crisisAlerts' = [crisisAlerts EXCEPT ![i] =
                        [@ EXCEPT !.frames = @ - 1, !.visibleClass = TRUE]]
  /\ UNCHANGED << crisisElements, page, crisisCall, crisisOps, chatVars, utilVars, toggleVars >>

\* hide(): called on instance i, or its close button or overlay clicked.
CrisisHide(i) ==
  /\ crisisOps < MaxCrisisOps
  /\ crisisOps' = crisisOps + 1
  /\ crisisAlerts' = IF crisisAlerts[i].isVisible
                       THEN [crisisAlerts EXCEPT ![i] =
                               [@ EXCEPT !.visibleClass = FALSE, !.timers = @ + 1]]
                       ELSE crisisAlerts
  /\ crisisCall' = [fn |-> "hide", outcome |-> "returned"]
  /\ UNCHANGED << crisisElements, page, chatVars, utilVars, toggleVars >>

\* The 300 ms timer of hide fires.
CrisisHideTimer(i) ==
  /\ crisisAlerts[i].timers > 0
  /\ crisisAlerts' = [crisisAlerts EXCEPT ![i] =
                        [@ EXCEPT !.timers = @ - 1, !.display = "none",
                                  !.isVisible = FALSE]]
  /\ page' = dispatchEvent(page, i, "crisis-alert-hidden", EmptyObject)
  /\ UNCHANGED << crisisElements, crisisCall, crisisOps, chatVars, utilVars, toggleVars >>

\* destroy() of instance i.
CrisisDestroy(i) ==
  /\ crisisOps < MaxCrisisOps
  /\ crisisOps' = crisisOps + 1
  /\ crisisElements' = SelectSeq(crisisElements, LAMBDA e : e.instance # i)
  /\ crisisAlerts' = [crisisAlerts EXCEPT ![i] =
                        [@ EXCEPT !.attached = FALSE, !.isVisible = FALSE]]
  /\ crisisCall' = [fn |-> "destroy", outcome |-> "returned"]
  /\ UNCHANGED << page, chatVars, utilVars, toggleVars >>

\* callEmergency(), the user answering the confirm dialog with `answer`.
callEmergency(pg, i, answer) ==
  LET asked == [pg EXCEPT !.confirms = @ + 1]
  IN IF answer
       THEN dispatchEvent([asked EXCEPT !.location = "tel:1199",
                                        !.navigations = @ + 1],
                          i, "crisis-action", [action |-> "emergency-call"])
       ELSE asked

\* findResources()
findResources(pg, i) ==
  [dispatchEvent(pg, i, "crisis-action", [action |-> "find-resources"])
     EXCEPT !.alerts = @ + 1]

\* showSafetyPlan()
showSafetyPlan(pg, i) ==
  [dispatchEvent(pg, i, "crisis-action", [action |-> "safety-plan"])
     EXCEPT !.alerts = @ + 1]

\* handleAction(action)
handleAction(pg, i, action, answer) ==
  CASE action = "call-emergency" -> callEmergency(pg, i, answer)
    [] action = "find-resources" -> findResources(pg, i)
    [] action = "safety-plan" -> showSafetyPlan(pg, i)
    [] OTHER -> pg

\* The buttons of the alert, by their data-action.
CrisisButtons == {"call-emergency", "find-resources", "safety-plan"}

\* The click listeners setupEventListeners puts on a button, in the order it
\* adds them: every [data-action] button gets handleAction, and the
\* .btn-crisis-primary button, which is the call-emergency one, callEmergency.
ClickListeners(action) ==
  << "handleAction" >> \o (IF action = "call-emergency" THEN << "callEmergency" >>
                                                         ELSE << >>)

\* The listeners of one click run in order; answers[k] is what the user
\* answers should listener k ask.
RECURSIVE RunListeners(_, _, _, _, _, _)
RunListeners(pg, i, action, listeners, answers, k) ==
  IF k > Len(listeners)
    THEN pg
    ELSE RunListeners(IF listeners[k] = "handleAction"
                        THEN handleAction(pg, i, action, answers[k])
                        ELSE callEmergency(pg, i, answers[k]),
                      i, action, listeners, answers, k + 1)

\* What the user answers to the confirm dialogs of one click.
ConfirmAnswers == [1..2 -> BOOLEAN]

\* The user clicks the button with the given data-action of alert i.
ClickButton(i, action, answers) ==
  /\ crisisOps < MaxCrisisOps
  /\ Displayed(i)
  /\ crisisOps' = crisisOps + 1
  /\ page' = RunListeners(page, i, action, ClickListeners(action), answers, 1)
  /\ crisisCall' = [fn |-> "click", button |-> action, alert |-> i,
                    answers |-> answers, outcome |-> "returned"]
  /\ UNCHANGED << crisisElements, crisisAlerts, chatVars, utilVars, toggleVars >>

\* CrisisAlert.show(crisisData), the static method.
StaticShow(crisisData) ==
  /\ crisisOps < MaxCrisisOps
  /\ crisisOps' = crisisOps + 1
  /\ IF crisisElements # << >>
       THEN \* querySelector finds the first element with class 'crisis-alert'
            LET existingAlert == Head(crisisElements)
            IN /\ IF existingAlert.crisisAlertInstance = JsUndefined
                    THEN UNCHANGED << crisisAlerts, page >>
                    ELSE InstanceShow(existingAlert.crisisAlertInstance.v, crisisData)
               /\ crisisCall' = [fn |-> "CrisisAlert.show", outcome |-> "returned"]
               /\ UNCHANGED crisisElements
       ELSE \* existingAlert is null: the constructor runs, then the assignment
            \* to existingAlert.crisisAlertInstance throws
            /\ Len(crisisAlerts) < MaxCrisisAlerts
            /\ crisisAlerts' = Append(crisisAlerts, NewCrisisAlert)
            /\ crisisElements' = Append(crisisElements,
                                        NewAlertElement(Len(crisisAlerts) + 1))
            /\ crisisCall' = [fn |-> "CrisisAlert.show", outcome |-> "TypeError"]
            /\ UNCHANGED page
  /\ UNCHANGED << chatVars, utilVars, toggleVars >>

\* A page with or without the #app container: without it index.js builds no
\* ChatInterface, and the document has no #crisisAlert element.
InitCrisis ==
  /\ InitChatInterface
  /\ crisisElements \in { << >>, << ChatAlertElement >> }
  /\ InitCrisisAlert
  /\ storedLanguage = JsNull
  /\ InitLanguageToggle

NextCrisis ==
  \/ ConstructCrisisAlert
  \/ \E i \in DOMAIN crisisAlerts, d \in CrisisDatas : CrisisShow(i, d)
  \/ \E i \in DOMAIN crisisAlerts : CrisisAnimationFrame(i)
  \/ \E i \in DOMAIN crisisAlerts : CrisisHide(i)
  \/ \E i \in DOMAIN crisisAlerts : CrisisHideTimer(i)
  \/ \E i \in DOMAIN crisisAlerts : CrisisDestroy(i)
  \/ \E i \in DOMAIN crisisAlerts, a \in CrisisButtons, answers \in ConfirmAnswers :
       ClickButton(i, a, answers)
  \/ \E d \in CrisisDatas : StaticShow(d)

SpecCrisis == InitCrisis /\ [][NextCrisis]_vars


(***************************************************************************)
(* LanguageToggle                                                          *)
(***************************************************************************)
\* The number of LanguageToggle calls and user actions explored.
MaxToggleOps == 4

\* this.translations
ToggleTranslations ==
  [en |-> [english |-> "English", swahili |-> "Kiswahili", switchTo |-> "Switch to",
           languageChanged |-> "Language changed to"],
   sw |-> [english |-> "Kiingereza", swahili |-> "Kiswahili",
           switchTo |-> "Badili kwenda",
           languageChanged |-> "Lugha imebadilishwa kwenda"]]

\* The languages the select and the visual toggle offer.
ToggleOptions == {"en", "sw"}

\* The languages a caller hands to setLanguage: the two options and one other.
CallerLanguages == {"en", "sw", "fr"}

\* The preference an earlier visit left in localStorage, if any.
StoredLanguages == {JsNull, Str("en"), Str("sw")}

\* options.onLanguageChange: left out, a listener, a listener that throws.
ToggleCallbacks == {"default", "listener", "throwing"}

\* The options handed to the constructor or to create.
ToggleOptionSets ==
  { [defaultLanguage |-> d, onLanguageChange |-> c] :
      d \in {JsUndefined} \cup {Str(l) : l \in ToggleOptions},
      c \in ToggleCallbacks }

\* getStoredLanguage(); storageWorks says whether localStorage can be used.
getStoredLanguage(storageWorks) ==
  IF storageWorks /\ storedLanguage # JsNull /\ storedLanguage.v # ""
    THEN storedLanguage.v
    ELSE "en"

\* updateUI(): the options with class 'active' and the label text.
updateUI(language) ==
  [active |-> {l \in ToggleOptions : l = language},
   label |-> IF language = "en" THEN "Language" ELSE "Lugha"]

\* new LanguageToggle(options)
NewLanguageToggle(options) ==
  LET language == IF options.defaultLanguage = JsUndefined
                     \/ options.defaultLanguage.v = ""
                    THEN "en"
                    ELSE options.defaultLanguage.v
  IN [constructed |-> TRUE, currentLanguage |-> language,
      onLanguageChange |-> options.onLanguageChange, selectValue |-> "en",
      ui |-> updateUI(language), mounted |-> FALSE]

\* The constructor called directly.
ToggleNew(options) ==
  /\ toggleOps < MaxToggleOps
  /\ toggleOps' = toggleOps + 1
  /\ toggle' = NewLanguageToggle(options)
  /\ toggleCall' = [fn |-> "new LanguageToggle", outcome |-> "returned"]
  /\ UNCHANGED << storedLanguage, toggleCalls, toggleEvents, notifications >>
  /\ UNCHANGED << chatVars, utilVars, crisisVars >>

\* LanguageToggle.create(options): options spread over the stored language.
ToggleCreate(options, storageWorks) ==
  /\ toggleOps < MaxToggleOps
  /\ toggleOps' = toggleOps + 1
  /\ toggle' = NewLanguageToggle(
                 IF options.defaultLanguage = JsUndefined
                   THEN [options EXCEPT
                           !.defaultLanguage = Str(getStoredLanguage(storageWorks))]
                   ELSE options)
  /\ toggleCall' = [fn |-> "LanguageToggle.create", outcome |-> "returned"]
  /\ UNCHANGED << storedLanguage, toggleCalls, toggleEvents, notifications >>
  /\ UNCHANGED << chatVars, utilVars, crisisVars >>

\* The caller puts getElement() into the document.
ToggleMount ==
  /\ toggle.constructed
  /\ ~toggle.mounted
  /\ toggle' = [toggle EXCEPT !.mounted = TRUE]
  /\ UNCHANGED << storedLanguage, toggleCalls, toggleEvents, notifications,
                  toggleCall, toggleOps >>
  /\ UNCHANGED << chatVars, utilVars, crisisVars >>

\* destroy()
ToggleDestroy ==
  /\ toggle.constructed
  /\ toggle.mounted
  /\ toggle' = [toggle EXCEPT !.mounted = FALSE]
  /\ toggleCall' = [fn |-> "destroy", outcome |-> "returned"]
  /\ UNCHANGED << storedLanguage, toggleCalls, toggleEvents, notifications,
                  toggleOps >>
  /\ UNCHANGED << chatVars, utilVars, crisisVars >>

\* setLanguage(language) with saveLanguagePreference and
\* showLanguageChangeMessage; storageWorks says whether localStorage.setItem
\* succeeds, caller names what made the call.
setLanguage(language, storageWorks, caller) ==
  IF language = toggle.currentLanguage
    THEN /\ toggleCall' = [fn |-> caller, language |-> language,
                           outcome |-> "returned"]
         /\ UNCHANGED << storedLanguage, toggle, toggleCalls, toggleEvents,
                         notifications >>
    ELSE LET previousLanguage == toggle.currentLanguage
         IN /\ toggle' = [toggle EXCEPT
                            !.currentLanguage = language,
                            !.ui = updateUI(language),
                            !.selectValue = IF language \in ToggleOptions
                                              THEN language ELSE ""]
            /\ storedLanguage' = IF storageWorks THEN Str(language)
                                                 ELSE storedLanguage
            /\ toggleCalls' = Append(toggleCalls, << language, previousLanguage >>)
            /\ IF toggle.onLanguageChange = "throwing"
                 THEN /\ toggleCall' = [fn |-> caller, language |-> language,
                                        outcome |-> "Error"]
                      /\ UNCHANGED << toggleEvents, notifications >>
                 ELSE /\ toggleEvents' =
                           Append(toggleEvents,
                                  [name |-> "language-changed",
                                   detail |-> [newLanguage |-> language,
                                               previousLanguage |-> previousLanguage]])
                      /\ IF language \in DOMAIN ToggleTranslations
                           THEN /\ notifications' =
                                     Append(notifications,
                                            ToggleTranslations[language].languageChanged
                                              \o " "
                                              \o (IF language = "en"
                                                    THEN ToggleTranslations[language].english
                                                    ELSE ToggleTranslations[language].swahili))
                                /\ toggleCall' = [fn |-> caller, language |-> language,
                                                  outcome |-> "returned"]
                           ELSE /\ toggleCall' = [fn |-> caller, language |-> language,
                                                  outcome |-> "TypeError"]
                                /\ UNCHANGED notifications

\* setLanguage(language) called by the code that owns the toggle.
ToggleSetLanguage(language, storageWorks) ==
  /\ toggleOps < MaxToggleOps
  /\ toggle.constructed
  /\ toggleOps' = toggleOps + 1
  /\ setLanguage(language, storageWorks, "setLanguage")
  /\ UNCHANGED << chatVars, utilVars, crisisVars >>

\* The user picks another option of the select: its change listener.
ToggleSelectChange(value, storageWorks) ==
  /\ toggleOps < MaxToggleOps
  /\ toggle.constructed
  /\ toggle.mounted
  /\ value # toggle.selectValue
  /\ toggleOps' = toggleOps + 1
  /\ setLanguage(value, storageWorks, "change")
  /\ UNCHANGED << chatVars, utilVars, crisisVars >>

\* The user clicks a .language-option, or presses Enter or Space on it.
ToggleOptionClick(lang, storageWorks) ==
  /\ toggleOps < MaxToggleOps
  /\ toggle.constructed
  /\ toggle.mounted
  /\ toggleOps' = toggleOps + 1
  /\ setLanguage(lang, storageWorks, "click")
  /\ UNCHANGED << chatVars, utilVars, crisisVars >>

\* The 3 s timer of showLanguageChangeMessage removes the oldest notification.
NotificationTimer ==
  /\ notifications # << >>
  /\ notifications' = Tail(notifications)
  /\ UNCHANGED << storedLanguage, toggle, toggleCalls, toggleEvents, toggleCall,
                  toggleOps >>
  /\ UNCHANGED << chatVars, utilVars, crisisVars >>

\* The chat page of a first or a later visit.
InitToggle ==
  /\ InitChatInterface
  /\ crisisElements = << ChatAlertElement >>
  /\ InitCrisisAlert
  /\ storedLanguage \in StoredLanguages
  /\ InitLanguageToggle

NextToggle ==
  \/ \E o \in ToggleOptionSets : ToggleNew(o)
  \/ \E o \in ToggleOptionSets, w \in BOOLEAN : ToggleCreate(o, w)
  \/ ToggleMount
  \/ ToggleDestroy
  \/ \E l \in CallerLanguages, w \in BOOLEAN : ToggleSetLanguage(l, w)
  \/ \E v \in ToggleOptions, w \in BOOLEAN : ToggleSelectChange(v, w)
  \/ \E l \in ToggleOptions, w \in BOOLEAN : ToggleOptionClick(l, w)
  \/ NotificationTimer

SpecToggle == InitToggle /\ [][NextToggle]_vars


(***************************************************************************)
(* Properties                                                              *)
(***************************************************************************)
\* The user message a suspended sendMessage call added is in history h.
UserMessageIn(h, c) ==
  \E i \in 1..Len(h) :
    /\ h[i].id = c.userMessageId
    /\ h[i].type = "user"
    /\ h[i].content = c.message

\* History h2 is history h1 with exactly one entry appended.
OneAppended(h1, h2) ==
  /\ Len(h2) = Len(h1) + 1
  /\ SubSeq(h2, 1, Len(h1)) = h1

\* C1: whenever the text sent through sendMessage contains a crisis keyword,
\* the crisis alert with emergency resources is shown once the call has been
\* answered, whatever the backend replied.
C1_CrisisKeywordShowsAlert ==
  [][\A c \in inflight :
       (c \notin inflight' /\ detectCrisisIndicators(c.message))
         => (crisisAlert'.show /\ crisisAlert'.resources # "")]_vars

LowerChar(c) == IF c \in DOMAIN UpperToLower THEN UpperToLower[c] ELSE c

\* Keyword k occurs in message m when upper-case letters of m count as their
\* lower-case ones.
OccursIgnoringCase(m, k) ==
  \E i \in 1..(Len(m) - Len(k) + 1) :
    \A j \in 1..Len(k) : LowerChar(Char(m, i + j - 1)) = Char(k, j)

\* C2: detectCrisisIndicators(message) is true exactly when some keyword of
\* the fixed list occurs in the message as a substring, letter case of the
\* message aside; the result is decided by the message alone.
C2_DetectIsKeywordScan ==
  utilCall.fn = "detectCrisisIndicators" =>
    utilResult =
      Bool(\E k \in 1..Len(crisisKeywords) :
             OccursIgnoringCase(utilCall.args[1].v, crisisKeywords[k]))

C2_Witness ==
  /\ utilCall.fn = "detectCrisisIndicators"
  /\ utilCall.args[1].v = "Nataka KuFa leo"
  /\ utilResult = Bool(TRUE)

\* C3: an accepted sendMessage call (the formatted input is not empty and
\* isTyping is false) issues exactly one POST to the chat endpoint with the
\* formatted message, the userId of construction, the current language and
\* platform 'web'; a call that is not accepted issues none, and nothing else
\* issues one.
C3_SendMessagePostsOnce ==
  [][/\ userId' = userId
     /\ sendCalls' = sendCalls => requests' = requests
     /\ sendCalls' # sendCalls =>
          IF formatUserInput(Str(inputValue)) # "" /\ ~isTyping
            THEN requests' =
                   Append(requests,
                          [url |-> "http://localhost:8000/api/v1/chat",
                           method |-> "POST",
                           body |-> [user_id |-> userId,
                                     message |-> formatUserInput(Str(inputValue)),
                                     language |-> currentLanguage,
                                     platform |-> "web"]])
            ELSE requests' = requests]_vars

C3_Witness ==
  /\ sendCalls = 2
  /\ Len(requests) = 1
  /\ requests[1].body.message = "<b>Kufa</b> u"
  /\ requests[1].body.user_id = userId

\* C4: when the request of an accepted sendMessage settles, exactly one reply
\* entry is appended to messageHistory (the response text with type 'crisis'
\* or 'bot', or the error message), and the call's user message precedes it
\* in the history.
C4_ReplyFollowsUserMessage ==
  [][\A c \in inflight :
       c \notin inflight' =>
         /\ OneAppended(messageHistory, messageHistory')
         /\ messageHistory'[Len(messageHistory')].type \in {"bot", "crisis"}
         /\ UserMessageIn(messageHistory, c)]_vars

RECURSIVE SanitizedResourceItems(_, _)
SanitizedResourceItems(resources, k) ==
  IF k > Len(resources) THEN ""
  ELSE "<div class=\"resource-item\">" \o formatMessage(resources[k], FALSE) \o "</div>"
         \o SanitizedResourceItems(resources, k + 1)

\* C5: every message text put into the chat DOM (user input, backend reply,
\* crisis resources) went through sanitizeHTML before it was formatted.
C5_DisplayedTextSanitized ==
  /\ \A i \in 1..Len(messages) : \A j \in 1..Len(messageHistory) :
       (messages[i].messageId # 0 /\ messageHistory[j].id = messages[i].messageId)
         => messages[i].html = formatMessage(messageHistory[j].content, FALSE)
  /\ crisisAlert.resources # "" =>
       \E b \in ChatBodies, lang \in Languages :
         /\ b.t = "object"
         /\ b.resources.t = "array"
         /\ crisisAlert.resources =
              "<p><strong>" \o translate("crisisMessage", lang)
                \o "</strong></p><div class=\"resources\">"
                \o SanitizedResourceItems(b.resources.v, 1) \o "</div>"

\* C6: when the chat request of an accepted sendMessage fails, the typing
\* indicator is hidden and the send button enabled, exactly one 'bot' message
\* with the errorMessage of the current language is appended, the user's
\* message is in messageHistory, and the crisis alert is not touched.
C6_FailureHandled ==
  [][\A c \in inflight, o \in FetchFailures :
       SendMessageSettle(c, o) =>
         /\ ~isTyping' /\ ~typingIndicator' /\ ~sendDisabled'
         /\ OneAppended(messageHistory, messageHistory')
         /\ messageHistory'[Len(messageHistory')].type = "bot"
         /\ messageHistory'[Len(messageHistory')].content =
              Translations[currentLanguage].errorMessage
         /\ UserMessageIn(messageHistory', c)
         /\ crisisAlert' = crisisAlert]_vars

\* C7: getStats never rejects: on every failure of the fetch it resolves with
\* the default stats, all three 0, and on success with the parsed body.
C7_GetStatsDefaults ==
  /\ statsResult.settled # "rejected"
  /\ statsFetch.kind \in {"network_error", "http_error", "bad_json"} =>
       statsResult =
         [settled |-> "resolved",
          value |-> [t |-> "object", active_users |-> Num(0),
                     total_conversations |-> Num(0), resources_available |-> Num(0)]]
  /\ statsFetch.kind = "ok" =>
       statsResult = [settled |-> "resolved", value |-> statsFetch.body]

C7_Witness ==
  /\ statsFetch.kind = "bad_json"
  /\ statsResult.settled = "resolved"
  /\ statsResult.value.active_users = Num(0)

\* The text a counter shows for a field of the stats reply.
FieldText(f) ==
  IF f = Num(7) THEN "7" ELSE IF f = Num(12) THEN "12" ELSE "0"

ZeroStats ==
  [activeUsers |-> "0", totalConversations |-> "0", resourcesAvailable |-> "0"]

StatsStep(o) == UpdateStatsSettle(o) \/ LoadInitialDataSettle(o)

\* C8 as stated: after updateStats the counters show the fields of the reply,
\* 0 for a missing or falsy one, and a failed fetch leaves them unchanged.
C8_FailureLeavesCounters ==
  [][\A o \in StatsOutcomes :
       StatsStep(o) =>
         IF o.kind = "ok" /\ o.body.t = "object"
           THEN statsBar' = [activeUsers |-> FieldText(o.body.active_users),
                             totalConversations |-> FieldText(o.body.total_conversations),
                             resourcesAvailable |-> FieldText(o.body.resources_available)]
           ELSE statsBar' = statsBar]_vars

\* C8, amended: after updateStats the counters show the fields of the reply,
\* 0 for a missing or falsy one; a failed fetch sets all three to 0; only a
\* reply whose body is null leaves them unchanged.
C8_FailureZeroesCounters ==
  [][\A o \in StatsOutcomes :
       StatsStep(o) =>
         IF o.kind = "ok" /\ o.body.t = "object"
           THEN statsBar' = [activeUsers |-> FieldText(o.body.active_users),
                             totalConversations |-> FieldText(o.body.total_conversations),
                             resourcesAvailable |-> FieldText(o.body.resources_available)]
           ELSE IF o.kind = "ok" THEN statsBar' = statsBar
           ELSE statsBar' = ZeroStats]_vars

C8_Witness ==
  /\ statsFetch.kind = "network_error"
  /\ statsBar = ZeroStats
  /\ initialLoad = "done"
  /\ refreshes >= 2
  /\ pendingStats = 0

\* C9: formatUserInput returns cleaned input: no white space at either end,
\* no two white-space characters in a row and none but the space, at most
\* 1000 characters, '' for a null, empty or white-space-only input; applying
\* it again changes nothing.
C9_FormatUserInputCleaned ==
  utilCall.fn = "formatUserInput" =>
    LET in == utilCall.args[1]
        r == utilResult.v
    IN /\ r # "" => (~IsWhitespace(Char(r, 1)) /\ ~IsWhitespace(Char(r, Len(r))))
       /\ \A i \in 1..Len(r) : IsWhitespace(Char(r, i)) => Char(r, i) = " "
       /\ \A i \in 1..(Len(r) - 1) :
            ~(IsWhitespace(Char(r, i)) /\ IsWhitespace(Char(r, i + 1)))
       /\ Len(r) <= 1000
       /\ (in.t = "null" \/ \A i \in 1..Len(in.v) : IsWhitespace(Char(in.v, i)))
            => r = ""
       /\ formatUserInput(Str(r)) = r

\* C10: for every text and every maxLength >= 0 the result of truncateText
\* is at most maxLength characters long, and a text no longer than maxLength
\* is returned unchanged.
C10_TruncateWithinMaxLength ==
  (/\ utilCall.fn = "truncateText"
   /\ utilCall.args[1].t = "string"
   /\ utilCall.args[2].t = "number")
    => /\ Len(utilResult.v) <= utilCall.args[2].v
       /\ Len(utilCall.args[1].v) <= utilCall.args[2].v
            => utilResult = utilCall.args[1]


(***************************************************************************)
(* C11: the crisis alert hides itself.  After a call of showCrisisAlert    *)
(* the alert never carries class 'show' for more than 15 seconds without a *)
(* break: the timer the call set removes the class when 15 s have passed,  *)
(* unless the close button or an earlier call's timer removed it before.   *)
(***************************************************************************)
C11_AlertHiddenWithin15s == shownFor <= 15 * 1000

\* The alert has been shown for 15 s without being closed, and the timer of
\* the call that showed it has run out.
C11_Witness ==
  /\ crisisAlert.show
  /\ shownFor = 15 * 1000
  /\ hideTimers # << >>
  /\ Head(hideTimers) = 0



\* Some element with class 'crisis-alert' is visible: a CrisisAlert that is
\* shown, or the #crisisAlert element of the chat with class 'show'.
SomeAlertVisible ==
  \/ crisisAlert.show /\ crisisElements # << >> /\ Head(crisisElements).instance = 0
  \/ \E i \in DOMAIN crisisAlerts : crisisAlerts[i].isVisible /\ Displayed(i)

(***************************************************************************)
(* C12: CrisisAlert.show(crisisData) returns, and an alert is visible      *)
(* after it, whether or not the document had an element with class         *)
(* 'crisis-alert' before the call.                                         *)
(***************************************************************************)
C12_StaticShowMakesAlertVisible ==
  [][\A d \in CrisisDatas :
       StaticShow(d) => crisisCall'.outcome = "returned" /\ SomeAlertVisible']_vars

(***************************************************************************)
(* C13: one click on the 'Call Emergency Line' button asks for             *)
(* confirmation exactly once, and navigates to tel:1199 and dispatches     *)
(* 'crisis-action' with action 'emergency-call' at most once, and only     *)
(* when the user confirmed.                                                *)
(***************************************************************************)
C13_OneConfirmPerClick ==
  [][\A i \in DOMAIN crisisAlerts, answers \in ConfirmAnswers :
       ClickButton(i, "call-emergency", answers)
         => /\ page'.confirms = page.confirms + 1
            /\ page'.navigations - page.navigations <= 1
            /\ Len(page'.events) - Len(page.events) <= 1
            /\ page'.navigations > page.navigations => answers[1]
            /\ Len(page'.events) > Len(page.events) => answers[1]]_vars



\* A step of setLanguage, whoever called it.
SetLanguageStep ==
  \/ \E l \in CallerLanguages, w \in BOOLEAN : ToggleSetLanguage(l, w)
  \/ \E v \in ToggleOptions, w \in BOOLEAN : ToggleSelectChange(v, w)
  \/ \E l \in ToggleOptions, w \in BOOLEAN : ToggleOptionClick(l, w)

(***************************************************************************)
(* C14: the current language of a LanguageToggle is always 'en' or 'sw',   *)
(* and a setLanguage call that changes it returns normally, having saved   *)
(* the new language as the preference, called onLanguageChange and         *)
(* dispatched 'language-changed'.                                          *)
(***************************************************************************)
C14_LanguageIsEnglishOrSwahili ==
  /\ [](toggle.constructed => toggle.currentLanguage \in {"en", "sw"})
  /\ [][SetLanguageStep /\ toggle'.currentLanguage # toggle.currentLanguage
          => /\ toggleCall'.outcome = "returned"
             /\ storedLanguage' = Str(toggle'.currentLanguage)
             /\ Len(toggleCalls') = Len(toggleCalls) + 1
             /\ Len(toggleEvents') = Len(toggleEvents) + 1]_vars


=============================================================================
